---- MODULE Spec2Model ----
(***************************************************************************)
(* cet: Compiler Explorer in the terminal (src/main.go).                   *)
(*                                                                         *)
(* main() either compiles once (-once) or calls watch(), which compiles    *)
(* once and then re-compiles from a 100 ms debounce timer armed by the     *)
(* fsnotify events of the main file.  compile() reads the main file,       *)
(* collects the project files with collectProjectFiles(), posts one        *)
(* request and prints the response.                                        *)
(*                                                                         *)
(* A file name is the sequence of its dot-separated segments               *)
(* ("util.zig" is <<"util","zig">>, ".git" is <<"","git">>), a path is a   *)
(* sequence of names, absolute paths start at "/".                         *)
(***************************************************************************)
EXTENDS Integers, Sequences, FiniteSets, TLC

VARIABLES
    pc,          \* position of the main goroutine
    exitCode,    \* process exit status, -1 while running
    once,        \* the -once flag
    filePath,    \* flag.Arg(0)
    projectRoot, \* the -root flag
    fs,          \* the regular files on disk (absolute paths)
    mayFail,     \* the operations the environment can make fail in this run
    debounce,    \* watch's debounce variable: a timer id, 0 is nil
    pending,     \* timers armed and neither fired nor stopped
    calls,       \* every compile() call made so far, in order of start
    handled,     \* events received by the watch loop
    delivered,   \* Write/Create events of the main file received by the loop
    lastMatch,   \* the number (in order of receipt) of the last such event
    errorsSeen,  \* values received on watcher.Errors
    printed,     \* the error lines printed: the compile calls whose error
                 \* was printed and the number of watcher errors printed
    watchReturn  \* how watch returned, "" while it has not

vars == <<pc, exitCode, once, filePath, projectRoot, fs, mayFail, debounce, pending,
          calls, handled, delivered, lastMatch, errorsSeen, printed, watchReturn>>

inputs == <<once, filePath, projectRoot, fs, mayFail>>
timers == <<debounce, pending>>
history == <<handled, delivered, lastMatch, errorsSeen>>
output == <<printed, watchReturn>>

(***************************************************************************)
(* Bounds                                                                  *)
(***************************************************************************)
MaxEvents == 3
MaxErrors == 1
MaxFiles == 2

(***************************************************************************)
(* Names and paths                                                         *)
(***************************************************************************)
Dot == <<"", "">>
DotDot == <<"", "", "">>
Slash == <<"/">>

n_git == <<"", "git">>
n_idea == <<"", "idea">>
n_zigcache == <<"", "zig-cache">>
n_build == <<"build", "zig">>
n_lib == <<"lib">>
n_main == <<"main", "zig">>
n_node == <<"node_modules">>
n_src == <<"src">>
n_target == <<"target">>
n_up == <<"up", "ZIG">>
n_utilc == <<"util", "c">>
n_util == <<"util", "zig">>
n_w == <<"w">>
n_zigout == <<"zig-out">>

\* The names above in byte order, the order os.ReadDir returns them in.
NameOrder ==
    <<n_git, n_idea, n_zigcache, n_build, n_lib, n_main, n_node, n_src,
      n_target, n_up, n_utilc, n_util, n_w, n_zigout>>

\* The working directory of the process.
cwd == <<n_w>>

RelPath(parts) == [abs |-> FALSE, parts |-> parts]
AbsPath(parts) == [abs |-> TRUE, parts |-> parts]
EmptyPath == RelPath(<<>>)

\* filepath.Ext: the suffix from the final dot of the final element.
Ext(name) == IF Len(name) > 1 THEN <<name[Len(name)]>> ELSE <<>>

\* d.Name() / filepath.Base of an absolute path.
Name(path) == IF path = <<>> THEN Slash ELSE path[Len(path)]

\* filepath.Dir of an absolute path.
Dir(path) == IF path = <<>> THEN <<>> ELSE SubSeq(path, 1, Len(path) - 1)

\* filepath.Clean of a rooted path: "." is dropped, ".." removes the
\* element before it and is dropped at the root.
RECURSIVE Clean(_, _)
Clean(parts, acc) ==
    IF parts = <<>> THEN acc
    ELSE LET h == Head(parts)
         IN  Clean(Tail(parts),
                   IF h = Dot THEN acc
                   ELSE IF h = DotDot THEN Dir(acc)
                   ELSE Append(acc, h))

\* filepath.Abs when os.Getwd succeeds.
Abs(p) == IF p.abs THEN Clean(p.parts, <<>>) ELSE Clean(cwd \o p.parts, <<>>)

IsPrefix(a, b) == Len(a) <= Len(b) /\ SubSeq(b, 1, Len(a)) = a

CommonLen(a, b) ==
    CHOOSE k \in 0..Len(a) :
        /\ k <= Len(b)
        /\ SubSeq(a, 1, k) = SubSeq(b, 1, k)
        /\ \A j \in (k + 1)..Len(a) :
               j > Len(b) \/ SubSeq(a, 1, j) # SubSeq(b, 1, j)

\* filepath.Rel of two clean absolute paths: one ".." for every element of
\* base past the common prefix, then the rest of targ; "." when equal.
Rel(base, targ) ==
    LET k == CommonLen(base, targ)
        r == [i \in 1..(Len(base) - k) |-> DotDot]
                 \o SubSeq(targ, k + 1, Len(targ))
    IN  IF r = <<>> THEN <<Dot>> ELSE r

(***************************************************************************)
(* The file system                                                         *)
(***************************************************************************)
IsFile(path) == path \in fs
IsDirectory(path) == \E f \in fs : Len(f) > Len(path) /\ IsPrefix(path, f)
Exists(path) == IsFile(path) \/ IsDirectory(path)

\* os.ReadFile: the contents of a file, one token per file.
Contents(path) == <<"contents of", path>>

\* os.ReadDir: the entries of a directory, sorted by name.
Entries(dir) == {f[Len(dir) + 1] : f \in {g \in fs : Len(g) > Len(dir) /\ IsPrefix(dir, g)}}
ReadDir(dir) == SelectSeq(NameOrder, LAMBDA n : n \in Entries(dir))

(***************************************************************************)
(* collectProjectFiles                                                     *)
(***************************************************************************)
NoFault == [at |-> <<>>, kind |-> "none"]
Fault(path, kind) == [at |-> path, kind |-> kind]

\* Mutant: target is missing from the skip list.
skipDirsWithoutTarget == {n_zigcache, n_git, n_idea, n_node, n_zigout}

skipDirs == {n_zigcache, n_git, n_idea, n_node, n_target, n_zigout}

FileEntry(filename, contents) == [filename |-> filename, contents |-> contents]

\* Mutant: the main file is told by its name, not by its path.
FilteredByName(path, ext, mainFile) ==
    Ext(Name(path)) # ext \/ Name(path) = Name(mainFile) \/ Name(path) = n_build

\* The callback's decision for a file: skip it, or read and append it.
Filtered(path, ext, mainFile) ==
    Ext(Name(path)) # ext \/ path = mainFile \/ Name(path) = n_build

\* The callback on a regular file (lines 104-123); a.fault is the I/O
\* failure injected into this walk, if any.
VisitFile(path, acc, a) ==
    IF Filtered(path, Ext(Name(a.mainFile)), a.mainFile) THEN acc
    ELSE IF a.fault = Fault(path, "readfile") THEN [acc EXCEPT !.err = "readfile"]
    ELSE IF a.fault = Fault(path, "rel") THEN [acc EXCEPT !.err = "rel"]
    ELSE [acc EXCEPT !.files =
              Append(@, FileEntry(Rel(a.relativeToDir, path), Contents(path)))]

\* filepath.WalkDir below path: the callback on path, then on its sorted
\* entries; SkipDir leaves a directory unread, an error ends the walk.
RECURSIVE walkDir(_, _, _)
RECURSIVE walkEntries(_, _, _, _)
walkDir(path, acc, a) ==
    IF IsFile(path) THEN VisitFile(path, acc, a)
    ELSE IF Name(path) \in skipDirs THEN acc
    ELSE IF a.fault = Fault(path, "readdir") THEN [acc EXCEPT !.err = "readdir"]
    ELSE walkEntries(path, ReadDir(path), acc, a)

walkEntries(dir, names, acc, a) ==
    IF names = <<>> THEN acc
    ELSE LET r == walkDir(Append(dir, Head(names)), acc, a)
         IN  IF r.err # "" THEN r ELSE walkEntries(dir, Tail(names), r, a)

collectProjectFiles(searchDir, mainFile, relativeToDir, fault) ==
    LET a == [mainFile |-> mainFile, relativeToDir |-> relativeToDir, fault |-> fault]
        none == [files |-> <<>>, err |-> ""]
    IN  IF ~Exists(searchDir) \/ fault = Fault(searchDir, "lstat")
        THEN [none EXCEPT !.err = "lstat"]
        ELSE walkDir(searchDir, none, a)

\* The I/O failures a walk from searchDir can meet.
AllFaults(searchDir) ==
    {Fault(searchDir, "lstat")}
        \cup {Fault(f, k) : f \in {g \in fs : IsPrefix(searchDir, g)}, k \in {"readfile", "rel"}}
        \cup UNION {{Fault(SubSeq(f, 1, n), "readdir") :
                         n \in Len(searchDir)..(Len(f) - 1)} :
                    f \in {g \in fs : IsPrefix(searchDir, g)}}

Faults(searchDir) ==
    {NoFault} \cup {f \in AllFaults(searchDir) : f.kind \in mayFail}

\* Whether an operation succeeds: it can fail only if the environment of
\* this run makes it.
Outcomes(operation) == IF operation \in mayFail THEN BOOLEAN ELSE {TRUE}

(***************************************************************************)
(* compile                                                                 *)
(***************************************************************************)
CompileOptions ==
    [userArguments |-> "args",
     filters |-> [binary |-> FALSE, commentOnly |-> TRUE, demangle |-> TRUE,
                  directives |-> TRUE, intel |-> TRUE, labels |-> TRUE,
                  trim |-> FALSE]]

CompileRequest(source, files) ==
    [Source |-> source, Options |-> CompileOptions, Files |-> files]

\* json.Marshal(req): the files key is omitempty, left out of the object
\* when the slice is nil or empty.
jsonMarshal(req) ==
    LET obj == [source |-> req.Source, options |-> req.Options]
    IN  IF Len(req.Files) = 0 THEN obj ELSE obj @@ [files |-> req.Files]

NotCollected == [files |-> <<>>, err |-> "not called"]
NoBody == [source |-> <<>>]

\* A compile() call at its entry.  trigger is the call site, timer the
\* debounce timer that made the call (0: none), after the number of main
\* file Write/Create events received before the call started.
NewCall(trigger, timer, after) ==
    [trigger |-> trigger, timer |-> timer, after |-> after, pc |-> "call",
     err |-> "", posts |-> 0, searchDir |-> <<>>, collected |-> NotCollected,
     warned |-> FALSE, body |-> NoBody, code |-> 0]

Return(c, err) == [c EXCEPT !.pc = "returned", !.err = err]

\* Mutant: the root is used as given, without filepath.Abs.
SearchDirNotAbsolute(root, mainDir) ==
    IF root # EmptyPath THEN Clean(root.parts, <<>>) ELSE mainDir

\* The search directory (lines 199-208).
SearchDir(root, mainDir) == IF root # EmptyPath THEN Abs(root) ELSE mainDir

\* Mutant: the entries collected before the failure are kept.
ProjectFilesKept(collected) == collected.files

\* projectFiles after the error check of lines 212-215.
ProjectFiles(collected) == IF collected.err # "" THEN <<>> ELSE collected.files

\* compile() from its entry to the request it is about to send (lines
\* 180-246).  failing names the call that fails, if one does: os.ReadFile
\* ("read"), filepath.Abs of the file ("abs") or of the root ("absroot"),
\* json.Marshal ("marshal") or http.NewRequest ("newrequest"); fault is
\* the failure injected into the walk.
Prepare(c, failing, fault) ==
    LET absPath == Abs(filePath)
        mainDir == Dir(absPath)
        searchDir == SearchDir(projectRoot, mainDir)
        collected == collectProjectFiles(searchDir, absPath, mainDir, fault)
        req == CompileRequest(Contents(absPath), ProjectFiles(collected))
        d == [c EXCEPT !.searchDir = searchDir, !.collected = collected,
                       !.warned = (collected.err # "")]
    IN  IF failing = "read" \/ ~IsFile(absPath) THEN Return(c, "failed to read file")
        ELSE IF failing = "abs" THEN Return(c, "failed to get absolute path")
        ELSE IF projectRoot # EmptyPath /\ failing = "absroot"
             THEN Return(c, "failed to get absolute project root")
        ELSE IF failing = "marshal" THEN Return(d, "failed to marshal request")
        ELSE IF failing = "newrequest" THEN Return(d, "failed to create request")
        ELSE [d EXCEPT !.pc = "do", !.body = jsonMarshal(req)]

\* The calls of Prepare that can fail in this run: filepath.Abs fails only
\* when os.Getwd does, on a relative path.
Failing ==
    {""} \cup ({"read", "marshal", "newrequest"} \cap mayFail)
         \cup {x \in {"abs"} : "getwd" \in mayFail /\ ~filePath.abs}
         \cup {x \in {"absroot"} : "getwd" \in mayFail /\ ~projectRoot.abs
                                     /\ projectRoot # EmptyPath}

Alive == pc # "exited"

\* The error lines printed once call i has become c: the function of a
\* debounce timer prints the error its compile returns (lines 332-334).
PrintedAfter(i, c) ==
    IF c.trigger = "timer" /\ c.pc = "returned" /\ c.err # ""
    THEN [printed EXCEPT !.compile = @ \cup {i}]
    ELSE printed

CompileCall(i) ==
    /\ Alive
    /\ calls[i].pc = "call"
    /\ \E failing \in Failing :
           \E fault \in IF failing \in {"read", "abs", "absroot"} THEN {NoFault}
                         ELSE Faults(SearchDir(projectRoot, Dir(Abs(filePath)))) :
               calls' = [calls EXCEPT ![i] = Prepare(@, failing, fault)]
    /\ printed' = PrintedAfter(i, calls'[i])
    /\ UNCHANGED <<pc, exitCode, inputs, timers, history, watchReturn>>

\* Mutant: a failed send is tried a second time.
DoWithRetry(c, sendOK) ==
    IF sendOK THEN [c EXCEPT !.posts = @ + 1, !.pc = "body"]
    ELSE [c EXCEPT !.posts = @ + 2, !.pc = "returned", !.err = "failed to send request"]

\* client.Do (lines 248-252): the one POST of the call.
Do(c, sendOK) ==
    IF sendOK THEN [c EXCEPT !.posts = @ + 1, !.pc = "body"]
    ELSE Return([c EXCEPT !.posts = @ + 1], "failed to send request")

CompileDo(i) ==
    /\ Alive
    /\ calls[i].pc = "do"
    /\ \E sendOK \in Outcomes("send") : calls' = [calls EXCEPT ![i] = Do(@, sendOK)]
    /\ printed' = PrintedAfter(i, calls'[i])
    /\ UNCHANGED <<pc, exitCode, inputs, timers, history, watchReturn>>

\* io.ReadAll, json.Unmarshal and the printing (lines 255-286); code is
\* the exit code the remote compiler reported.
Finish(c, readOK, parseOK, code) ==
    IF ~readOK THEN Return(c, "failed to read response")
    ELSE IF ~parseOK THEN Return(c, "failed to parse response")
    ELSE Return([c EXCEPT !.code = code], "")

CompileReturn(i) ==
    /\ Alive
    /\ calls[i].pc = "body"
    /\ \E readOK \in Outcomes("readbody"), parseOK \in Outcomes("parse"),
          code \in {0, 1} :
           calls' = [calls EXCEPT ![i] = Finish(@, readOK, parseOK, code)]
    /\ printed' = PrintedAfter(i, calls'[i])
    /\ UNCHANGED <<pc, exitCode, inputs, timers, history, watchReturn>>

(***************************************************************************)
(* main                                                                    *)
(***************************************************************************)
Exit(code) == pc' = "exited" /\ exitCode' = code

\* main up to its call of compile or watch (lines 346-388).  argOK: a file
\* argument was given; statOK: os.Stat does not report it missing.
MainStart ==
    /\ pc = "start"
    /\ \E argOK \in BOOLEAN, statOK \in Outcomes("stat") :
           IF ~argOK \/ ~statOK \/ ~Exists(Abs(filePath))
           THEN Exit(1) /\ UNCHANGED calls
           ELSE IF once
           THEN /\ pc' = "once"
                /\ calls' = Append(calls, NewCall("once", 0, lastMatch))
                /\ UNCHANGED exitCode
           ELSE pc' = "setup" /\ UNCHANGED <<exitCode, calls>>
    /\ UNCHANGED <<inputs, timers, history, output>>

\* The return of the -once compile (lines 381-385): an error is printed
\* and the status is 1; the response's code is not looked at.
OnceDone ==
    /\ pc = "once"
    /\ calls[1].pc = "returned"
    /\ Exit(IF calls[1].err # "" THEN 1 ELSE 0)
    /\ printed' = IF calls[1].err # "" THEN [printed EXCEPT !.compile = @ \cup {1}]
                  ELSE printed
    /\ UNCHANGED <<inputs, timers, calls, history, watchReturn>>

(***************************************************************************)
(* watch                                                                   *)
(***************************************************************************)
\* fsnotify.Op is a bit set; the sets of operations of one event.
Ops ==
    {{"Create"}, {"Write"}, {"Remove"}, {"Rename"}, {"Chmod"},
     {"Write", "Chmod"}, {"Remove", "Chmod"}}

\* The events of the watched directory: of the main file and of another
\* source file in it.
Events ==
    [name : {Append(Dir(Abs(filePath)), n) : n \in {Name(Abs(filePath)), n_util}},
     op : Ops]

\* Mutant: the event's name is not compared with the main file's path.
MatchesAnyName(event, absPath) ==
    "Write" \in event.op \/ "Create" \in event.op

\* The condition of line 325.
Matches(event, absPath) ==
    event.name = absPath /\ ("Write" \in event.op \/ "Create" \in event.op)

\* Mutant: the armed timer is not stopped.
StopNothing(armed, t) == armed

\* debounce.Stop() (lines 326-328): a nil debounce is not stopped, a timer
\* that has fired is not pending any more.
Stop(armed, t) == IF t # 0 THEN armed \ {t} ELSE armed

\* Mutant: the timer is created and never started.
AfterFuncNotStarted(armed, t) == armed

\* time.AfterFunc (line 329).
AfterFunc(armed, t) == armed \cup {t}

\* watch up to its initial compile (lines 289-312); a failure to create
\* the watcher, to build the absolute path or to add the directory returns
\* an error, which main prints before it exits with status 1.
WatchSetup ==
    /\ pc = "setup"
    /\ \E watcherOK \in Outcomes("watcher"), wdOK \in Outcomes("getwd"),
          addOK \in Outcomes("watcher") :
           IF ~watcherOK \/ (~wdOK /\ ~filePath.abs) \/ ~addOK
           THEN Exit(1) /\ watchReturn' = "setup error" /\ UNCHANGED calls
           ELSE /\ pc' = "initial"
                /\ calls' = Append(calls, NewCall("initial", 0, lastMatch))
                /\ UNCHANGED <<exitCode, watchReturn>>
    /\ UNCHANGED <<inputs, timers, history, printed>>

\* Mutant: the initial compile is not awaited (started with go).
WatchInitialNotAwaited ==
    /\ pc = "initial"
    /\ pc' = "loop"
    /\ UNCHANGED <<exitCode, inputs, timers, calls, history, output>>

\* Mutant: watch returns the error of the initial compile, and main exits
\* with status 1.
WatchInitialReturnsError ==
    /\ pc = "initial"
    /\ calls[1].pc = "returned"
    /\ IF calls[1].err # ""
       THEN Exit(1) /\ watchReturn' = "compile error"
       ELSE pc' = "loop" /\ UNCHANGED <<exitCode, watchReturn>>
    /\ UNCHANGED <<inputs, timers, calls, history, printed>>

\* The return of the initial compile (lines 312-317): its error is printed
\* and the loop is entered with a nil debounce.
WatchInitialDone ==
    /\ pc = "initial"
    /\ calls[1].pc = "returned"
    /\ pc' = "loop"
    /\ printed' = IF calls[1].err # "" THEN [printed EXCEPT !.compile = @ \cup {1}]
                  ELSE printed
    /\ UNCHANGED <<exitCode, inputs, timers, calls, history, watchReturn>>

\* One receive from watcher.Events (lines 321-336).
HandleEvent(event) ==
    /\ pc = "loop"
    /\ handled < MaxEvents
    /\ handled' = handled + 1
    /\ IF Matches(event, Abs(filePath))
       THEN /\ debounce' = handled + 1
            /\ pending' = AfterFunc(Stop(pending, debounce), handled + 1)
       ELSE UNCHANGED timers
    /\ IF event.name = Abs(filePath) /\ event.op \cap {"Write", "Create"} # {}
       THEN delivered' = delivered + 1 /\ lastMatch' = handled + 1
       ELSE UNCHANGED <<delivered, lastMatch>>
    /\ UNCHANGED <<pc, exitCode, inputs, calls, errorsSeen, output>>

\* One receive from watcher.Errors (lines 337-341).
HandleError ==
    /\ pc = "loop"
    /\ errorsSeen < MaxErrors
    /\ errorsSeen' = errorsSeen + 1
    /\ printed' = [printed EXCEPT !.watcher = @ + 1]
    /\ UNCHANGED <<pc, exitCode, inputs, timers, calls, handled, delivered, lastMatch,
                   watchReturn>>

\* Mutant: the armed debounce timer is stopped before watch returns.
EventsClosedStopsTimer ==
    /\ pc = "loop"
    /\ Exit(0)
    /\ watchReturn' = "Events closed"
    /\ pending' = {}
    /\ UNCHANGED <<inputs, debounce, calls, history, printed>>

\* watcher.Events is closed (lines 322-324): watch returns nil, main
\* returns and the process ends with the timers and compiles it has left.
EventsClosed ==
    /\ pc = "loop"
    /\ Exit(0)
    /\ watchReturn' = "Events closed"
    /\ UNCHANGED <<inputs, timers, calls, history, printed>>

\* watcher.Errors is closed (lines 338-340).
ErrorsClosed ==
    /\ pc = "loop"
    /\ Exit(0)
    /\ watchReturn' = "Errors closed"
    /\ UNCHANGED <<inputs, timers, calls, history, printed>>

\* Mutant: a ticker in place of the one-shot timer, which stays armed.
TimerFireRepeating(t) ==
    /\ pc # "exited"
    /\ t \in pending
    /\ calls' = Append(calls, NewCall("timer", t, lastMatch))
    /\ UNCHANGED <<pc, exitCode, inputs, timers, history, output>>

\* The debounce timer t fires (lines 329-335): its function runs in a
\* goroutine of its own and calls compile.
TimerFire(t) ==
    /\ Alive
    /\ t \in pending
    /\ pending' = pending \ {t}
    /\ calls' = Append(calls, NewCall("timer", t, lastMatch))
    /\ UNCHANGED <<pc, exitCode, inputs, debounce, history, output>>

(***************************************************************************)
(* Specifications                                                          *)
(***************************************************************************)
Start ==
    /\ pc = "start"
    /\ exitCode = -1
    /\ debounce = 0
    /\ pending = {}
    /\ calls = <<>>
    /\ handled = 0
    /\ delivered = 0
    /\ lastMatch = 0
    /\ errorsSeen = 0
    /\ printed = [compile |-> {}, watcher |-> 0]
    /\ watchReturn = ""

\* cet [-once] main.zig in a directory with one more source file.
Init ==
    /\ Start
    /\ once \in BOOLEAN
    /\ filePath = RelPath(<<n_main>>)
    /\ projectRoot = EmptyPath
    /\ fs = {<<n_w, n_main>>, <<n_w, n_util>>}
    /\ mayFail = {"watcher", "send"}

Next ==
    \/ MainStart
    \/ OnceDone
    \/ WatchSetup
    \/ WatchInitialDone
    \/ \E event \in Events : HandleEvent(event)
    \/ HandleError
    \/ EventsClosed
    \/ ErrorsClosed
    \/ \E t \in pending : TimerFire(t)
    \/ \E i \in DOMAIN calls : CompileCall(i)
    \/ \E i \in DOMAIN calls : CompileDo(i)
    \/ \E i \in DOMAIN calls : CompileReturn(i)

Spec == Init /\ [][Next]_vars

\* The runtime fires an armed timer unless it is stopped or the process
\* ends first.
LiveSpec == Spec /\ WF_vars(\E t \in pending : TimerFire(t))

\* cet -once [-root=...] <file> over the small file systems.
Candidates ==
    {<<n_w, n_main>>, <<n_w, n_util>>, <<n_w, n_build>>, <<n_w, n_utilc>>,
     <<n_w, n_up>>,
     <<n_w, n_src, n_main>>, <<n_w, n_src, n_util>>,
     <<n_w, n_src, n_zigout, n_util>>,
     <<n_w, n_target, n_util>>, <<n_w, n_target, n_src, n_util>>,
     <<n_w, n_git, n_util>>, <<n_w, n_idea, n_util>>, <<n_w, n_node, n_util>>,
     <<n_w, n_zigcache, n_util>>, <<n_w, n_zigout, n_util>>,
     <<n_lib, n_util>>}

FilePaths ==
    {RelPath(<<n_main>>), RelPath(<<n_src, n_main>>),
     RelPath(<<n_target, n_src, n_main>>), RelPath(<<n_build>>),
     RelPath(<<n_utilc>>)}

Roots ==
    {EmptyPath, RelPath(<<Dot>>), RelPath(<<DotDot>>), RelPath(<<n_src>>),
     RelPath(<<n_target>>), AbsPath(<<n_lib>>)}

Failures ==
    {"stat", "read", "getwd", "lstat", "readdir", "readfile", "rel",
     "newrequest", "send", "readbody", "parse"}

InitOnce ==
    /\ Start
    /\ once = TRUE
    /\ filePath \in FilePaths
    /\ projectRoot \in Roots
    /\ mayFail = Failures
    /\ \E others \in SUBSET Candidates :
           /\ Cardinality(others) <= MaxFiles
           /\ fs = {Abs(filePath)} \cup others

NextOnce ==
    \/ MainStart
    \/ OnceDone
    \/ \E i \in DOMAIN calls : CompileCall(i)
    \/ \E i \in DOMAIN calls : CompileDo(i)
    \/ \E i \in DOMAIN calls : CompileReturn(i)

SpecOnce == InitOnce /\ [][NextOnce]_vars

(***************************************************************************)
(* Properties                                                              *)
(***************************************************************************)
Running(i) == calls[i].pc # "returned"
TimerCalls == {i \in DOMAIN calls : calls[i].trigger = "timer"}

\* The files key of a marshalled request, <<>> when the key is absent.
BodyFiles(body) == IF "files" \in DOMAIN body THEN body.files ELSE <<>>
HasRequest(c) == c.body # NoBody

\* rel joined to the directory base, cleaned.
Join(base, rel) == Clean(base \o rel, <<>>)

\* The file an entry was read from.
FileOf(entry) == entry.contents[2]

\* Stated apart from the code's condition and skip list.
IsMainWriteOrCreate(event) ==
    event.name = Abs(filePath) /\ event.op \cap {"Write", "Create"} # {}
SkippedNames ==
    {<<"", "zig-cache">>, <<"", "git">>, <<"", "idea">>, <<"node_modules">>,
     <<"target">>, <<"zig-out">>}
MainFile == Abs(filePath)
MainDir == Dir(MainFile)
SameExt(f) == Ext(Name(f)) = Ext(Name(MainFile))

\* f lies in or below a directory with a skipped name that is the search
\* directory or lies below it.
BelowSkippedIn(searchDir, f) ==
    \E k \in Len(searchDir)..(Len(f) - 1) : k >= 1 /\ f[k] \in SkippedNames

\* f lies below a directory with a skipped name, wherever that directory is.
BelowSkipped(f) == \E k \in 1..(Len(f) - 1) : f[k] \in SkippedNames

\* C1: in watch mode every Write or Create event of the main file that the
\* loop receives is followed by the start of a compile from the debounce
\* timer, provided the timer is allowed to fire: unless the process ends
\* first (watch returns on a closed channel).
C1_RerunOnChange ==
    \A k \in 1..MaxEvents :
        (lastMatch = k) ~>
            (\/ pc = "exited"
             \/ \E i \in TimerCalls : calls[i].after >= k)

C1_Witness ==
    /\ pc = "loop"
    /\ lastMatch = 2
    /\ \E i \in TimerCalls : calls[i].after = 2

\* C2 as claimed: no compile is called unless -once was given or an event
\* of the watched file was received before it.
C2_OnlyFlagOrEvent ==
    \A i \in DOMAIN calls : once \/ calls[i].after > 0

\* C2 (amended): every compile is the -once compile, the one initial
\* compile of watch mode (made before any event is received), or a compile
\* made by a debounce timer after a Write or Create event of the main file;
\* there is at most one compile more than such events.
C2_Triggers ==
    /\ \A i \in DOMAIN calls :
           \/ calls[i].trigger = "once" /\ once /\ i = 1
           \/ calls[i].trigger = "initial" /\ ~once /\ i = 1 /\ calls[i].after = 0
           \/ calls[i].trigger = "timer" /\ ~once /\ i > 1 /\ calls[i].after > 0
    /\ Len(calls) <= 1 + delivered
    /\ once => delivered = 0

C2_Witness ==
    /\ ~once
    /\ Len(calls) = 3
    /\ delivered = 2
    /\ calls[1].trigger = "initial"
    /\ calls[3].trigger = "timer"

PrepareErrors ==
    {"failed to read file", "failed to get absolute path",
     "failed to get absolute project root", "failed to marshal request"}
ResponseErrors ==
    {"failed to send request", "failed to read response", "failed to parse response"}

\* C3 as claimed: a compile that reads the main file, builds the absolute
\* paths and marshals the request sends exactly one POST.
C3_ExactlyOnePost ==
    \A i \in DOMAIN calls :
        (calls[i].pc = "returned" /\ calls[i].err \notin PrepareErrors)
            => calls[i].posts = 1

\* C3 (amended): a compile calls client.Do at most once and never again
\* after a failure of the send, of the body read or of the parse; it calls
\* it exactly once when reading the main file, building the absolute paths,
\* marshalling and also http.NewRequest succeed.
C3_SingleCycle ==
    \A i \in DOMAIN calls :
        /\ calls[i].posts <= 1
        /\ calls[i].pc \in {"call", "do"} => calls[i].posts = 0
        /\ calls[i].pc = "body" => calls[i].posts = 1
        /\ (calls[i].pc = "returned" /\ calls[i].err \in ResponseErrors \cup {""})
               => calls[i].posts = 1
        /\ (calls[i].pc = "returned"
               /\ calls[i].err \in PrepareErrors \cup {"failed to create request"})
               => calls[i].posts = 0
        /\ (calls[i].pc = "returned"
               /\ calls[i].err \notin PrepareErrors \cup {"failed to create request"})
               => calls[i].posts = 1

C3_Witness ==
    \E i \in DOMAIN calls :
        /\ calls[i].pc = "returned"
        /\ calls[i].err = "failed to send request"
        /\ calls[i].posts = 1

C5_RootAndRelative ==
    \A i \in DOMAIN calls :
        calls[i].collected.err # "not called" =>
            /\ calls[i].searchDir =
                   IF projectRoot # EmptyPath THEN Abs(projectRoot) ELSE MainDir
            /\ \A k \in DOMAIN calls[i].collected.files :
                   LET e == calls[i].collected.files[k]
                       f == FileOf(e)
                       ups == {j \in DOMAIN e.filename : e.filename[j] = DotDot}
                   IN  /\ f \in fs
                       /\ IsPrefix(calls[i].searchDir, f)
                       /\ Join(MainDir, e.filename) = f
                       /\ ups = 1..Cardinality(ups)
                       /\ Cardinality(ups) = Len(MainDir) - CommonLen(MainDir, f)
                       /\ Len(e.filename) = Cardinality(ups) + Len(f) - CommonLen(MainDir, f)

C5_Witness ==
    \E i \in DOMAIN calls :
        /\ projectRoot # EmptyPath
        /\ calls[i].searchDir # MainDir
        /\ \E k \in DOMAIN calls[i].collected.files :
               /\ calls[i].collected.files[k].filename[1] = DotDot
               /\ calls[i].collected.files[k].filename #
                      SubSeq(FileOf(calls[i].collected.files[k]),
                             Len(calls[i].searchDir) + 1,
                             Len(FileOf(calls[i].collected.files[k])))

\* C6: at most one debounce timer is armed, the one of the last Write or
\* Create event of the main file; a compile made by a timer is made by the
\* timer of the last such event received before it started (the timers of
\* the earlier events of the burst were stopped), and no timer makes two.
C6_Debounce ==
    /\ Cardinality(pending) <= 1
    /\ pending \subseteq {lastMatch}
    /\ \A i \in TimerCalls :
           /\ calls[i].timer = calls[i].after
           /\ \A j \in TimerCalls : i # j => calls[i].timer # calls[j].timer

\* A burst of three events, then one compile.
C6_Witness ==
    /\ delivered = 3
    /\ pending = {}
    /\ Cardinality(TimerCalls) = 1
    /\ \E i \in TimerCalls : calls[i].timer = lastMatch

\* C7 as claimed: no two compile runs are in progress at the same time.
C7_NoOverlap ==
    \A i, j \in DOMAIN calls : (Alive /\ Running(i) /\ Running(j)) => i = j

\* C7 (amended): the initial compile (and the -once compile) never overlaps
\* another compile and no timer is armed while it runs; two compiles in
\* progress at the same time are compiles of two different timers.
C7_InitialAlone ==
    /\ \A i, j \in DOMAIN calls :
           (Running(i) /\ Running(j) /\ i # j) =>
               /\ calls[i].trigger = "timer"
               /\ calls[j].trigger = "timer"
               /\ calls[i].timer # calls[j].timer
    /\ \A i \in DOMAIN calls :
           (Running(i) /\ calls[i].trigger # "timer") =>
               Len(calls) = 1 /\ pending = {} /\ handled = 0

C7_Witness ==
    /\ Alive
    /\ \E i, j \in TimerCalls : i # j /\ calls[i].pc = "body" /\ calls[j].pc = "body"

\* C8: a received event arms the debounce timer exactly when it is a Write
\* or Create event of the main file; any other event leaves the timer, the
\* armed timers and the compile calls as they were.
C8_OnlyMainWriteOrCreate ==
    [][\A event \in Events :
          HandleEvent(event) =>
              IF IsMainWriteOrCreate(event)
              THEN debounce' = handled + 1 /\ pending' = {handled + 1}
                       /\ UNCHANGED calls
              ELSE UNCHANGED <<debounce, pending, calls>>]_vars

\* An event that did not match was received after one that did.
C8_Witness ==
    /\ handled = 2
    /\ lastMatch = 1
    /\ pending = {1}
    /\ debounce = 1

\* C9 as claimed: no entry for the main file, for build.zig, for another
\* extension, or for a file below a directory with a skipped name.
C9_NeverCollected ==
    \A i \in DOMAIN calls :
        \A k \in DOMAIN calls[i].collected.files :
            LET f == FileOf(calls[i].collected.files[k])
            IN  /\ f # MainFile
                /\ Name(f) # <<"build", "zig">>
                /\ SameExt(f)
                /\ ~BelowSkipped(f)

\* C9 (amended): no entry for the main file, for build.zig, for another
\* extension, or for a file below a directory with a skipped name that is
\* the search directory or lies below it; a search directory with a skipped
\* name gives no entry.
C9_NeverCollectedInWalk ==
    \A i \in DOMAIN calls :
        /\ \A k \in DOMAIN calls[i].collected.files :
               LET f == FileOf(calls[i].collected.files[k])
               IN  /\ f # MainFile
                   /\ Name(f) # <<"build", "zig">>
                   /\ SameExt(f)
                   /\ ~BelowSkippedIn(calls[i].searchDir, f)
        /\ (calls[i].collected.err # "not called" /\ Name(calls[i].searchDir) \in SkippedNames)
               => calls[i].collected.files = <<>>

\* A walk that met a file of each excluded kind and collected another.
C9_Witness ==
    \E i \in DOMAIN calls :
        /\ calls[i].collected.err = ""
        /\ Len(calls[i].collected.files) = 1
        /\ Cardinality(fs) = 3
        /\ \E f \in fs :
               /\ IsPrefix(calls[i].searchDir, f)
               /\ SameExt(f)
               /\ BelowSkippedIn(calls[i].searchDir, f)

\* C10: a failure of the walk never ends the compile: the warning is
\* printed, the entries collected before the failure are dropped, and the
\* request that is built and sent has the main source and no files key.
C10_CollectFailureContinues ==
    \A i \in DOMAIN calls :
        calls[i].collected.err \notin {"", "not called"} =>
            /\ calls[i].warned
            /\ calls[i].pc # "call"
            /\ calls[i].err \in
                   {"", "failed to marshal request", "failed to create request"}
                       \cup ResponseErrors
            /\ (calls[i].err \in {""} \cup ResponseErrors) =>
                   /\ HasRequest(calls[i])
                   /\ "files" \notin DOMAIN calls[i].body
                   /\ calls[i].body.source = Contents(MainFile)
            /\ (calls[i].pc \in {"body", "returned"} /\ calls[i].err \in {""} \cup ResponseErrors)
                   => calls[i].posts = 1

\* A walk that fails after it collected an entry; the request was sent.
C10_Witness ==
    \E i \in DOMAIN calls :
        /\ calls[i].collected.err = "readfile"
        /\ Len(calls[i].collected.files) = 1
        /\ calls[i].pc = "returned"
        /\ calls[i].err = ""
        /\ calls[i].posts = 1
        /\ "files" \notin DOMAIN calls[i].body

\* The ways watch returns nil (lines 322-324 and 338-340).
Closures == {"Events closed", "Errors closed"}

\* Call i returns an error in this step.
ReturnsError(i) ==
    /\ i \in DOMAIN calls
    /\ calls[i].pc # "returned"
    /\ calls'[i].pc = "returned"
    /\ calls'[i].err # ""

\* What has been printed and how the process ended, given the compiles
\* that returned.
ErrorsAccounted ==
    /\ \A i \in TimerCalls :
           calls[i].pc = "returned" /\ calls[i].err # "" => i \in printed.compile
    /\ (~once /\ calls # <<>> /\ pc \in {"loop", "exited"}) =>
           /\ calls[1].pc = "returned"
           /\ calls[1].err # "" => 1 \in printed.compile
    /\ (~once /\ calls # <<>> /\ pc = "exited") =>
           /\ exitCode = 0
           /\ watchReturn \in Closures
    /\ (once /\ calls # <<>> /\ pc = "exited") =>
           /\ calls[1].pc = "returned"
           /\ calls[1].code \in {0, 1}
           /\ exitCode = IF calls[1].err # "" THEN 1 ELSE 0
           /\ calls[1].err # "" => 1 \in printed.compile

\* C11: a compile that returns an error in watch mode is printed and leaves
\* the loop where it was, with its timers and its events untouched, and
\* watch mode ends only by a closed channel, with status 0; in -once mode
\* the status is 1 when compile returned an error and 0 when it returned
\* nil, whatever code the response carried.
C11_ErrorKeepsWatching ==
    [][/\ ErrorsAccounted'
       /\ \A i \in DOMAIN calls :
              (~once /\ ReturnsError(i)) =>
                  /\ pc \in {"initial", "loop"}
                  /\ UNCHANGED <<pc, exitCode, timers, history, watchReturn>>
                  /\ calls[i].trigger = "timer" => i \in printed'.compile]_vars

\* The initial compile and a debounced compile returned errors, both were
\* printed, and the loop went on to start the compile of a later event.
C11_Witness ==
    /\ ~once
    /\ pc = "loop"
    /\ Len(calls) = 3
    /\ calls[1].err # ""
    /\ calls[2].pc = "returned" /\ calls[2].err # ""
    /\ printed.compile = {1, 2}
    /\ calls[3].trigger = "timer"
    /\ calls[3].timer > calls[2].timer
    /\ calls[3].pc = "do"

\* The timers that are armed and whose function has not been started.
ArmedUnfired ==
    {t \in pending : \A i \in TimerCalls : calls[i].timer # t}

\* watch has returned nil: the process has ended with status 0 and every
\* timer still armed is one that never fired.
ReturnedNil ==
    watchReturn \in Closures =>
        /\ ~once
        /\ pc = "exited"
        /\ exitCode = 0
        /\ calls # <<>> /\ calls[1].pc = "returned"
        /\ ArmedUnfired = pending

\* C12: after the watcher is set up, watch returns only from the loop, by a
\* closed Events or Errors channel and with nil; a value received on Errors
\* is printed and leaves the loop, its timers and its compiles as they
\* were; the return leaves an armed debounce timer armed, and nothing runs
\* after it, so the compile of that timer never starts.
C12_ReturnsOnlyOnClose ==
    [][/\ ReturnedNil'
       /\ pc # "exited"
       /\ (~once /\ calls # <<>> /\ pc' = "exited") =>
              /\ pc = "loop"
              /\ watchReturn' \in Closures
              /\ exitCode' = 0
              /\ UNCHANGED <<timers, calls, history, printed>>
       /\ (errorsSeen' # errorsSeen) =>
              /\ pc = "loop" /\ pc' = "loop"
              /\ errorsSeen' = errorsSeen + 1
              /\ printed'.watcher = printed.watcher + 1
              /\ printed'.compile = printed.compile
              /\ UNCHANGED <<exitCode, timers, calls, handled, delivered, lastMatch,
                             watchReturn>>]_vars

\* A watcher error was printed, the loop went on to arm a timer for a change
\* of the main file, and watch returned on the closed Errors channel with
\* that timer armed: no compile was started for the change.
C12_Witness ==
    /\ watchReturn = "Errors closed"
    /\ pc = "exited"
    /\ errorsSeen = 1 /\ printed.watcher = 1
    /\ lastMatch > 0
    /\ pending = {lastMatch}
    /\ \A i \in TimerCalls : calls[i].after < lastMatch
====
